---------------------------- MODULE Spec2Model ----------------------------
(***************************************************************************)
(* Model of gerador_de_celulares_br.py: the trivial-pattern filter, the    *)
(* local-number generator with its rejection loop, the formatter, the      *)
(* batch generator generate() with its attempt budget, and main()'s call   *)
(* of write_outputs() on the returned batch.                               *)
(*                                                                         *)
(* A Python str is a sequence of one-character strings: "+5511" is         *)
(* <<"+","5","5","1","1">>.  Python indexes from 0, TLA+ from 1.           *)
(***************************************************************************)
EXTENDS Integers, Sequences, FiniteSets

VARIABLES
    pc,            \* position of the running call
    caller,        \* "main" (main(), line 190) or "direct" (generate() called as a function)
    ddds,          \* generate: list(ddds)
    qtd,           \* generate: requested quantity
    dedup,         \* generate: dedup flag
    results,       \* generate: list of records
    seen,          \* generate: set of E.164 strings
    i,             \* generate: index of the area code
    attempts,      \* generate: attempt counter
    max_attempts,  \* generate: attempt budget
    ddd,           \* generate / gen_number_for_ddd: area code of the running attempt
    seq,           \* gen_local_9digits: candidate; is_trivially_invalid: argument
    warning,       \* the [AVISO] line printed by generate (<<>> when none)
    ret,           \* value returned by the call
    files          \* what write_outputs wrote (<<>> before)

vars == <<pc, caller, ddds, qtd, dedup, results, seen, i, attempts,
          max_attempts, ddd, seq, warning, ret, files>>

----------------------------------------------------------------------------
(* Bounds of the model *)

\* generate is called with qtd in 1..MaxQtd, and with BigQtd
MaxQtd == 3

\* a quantity with qtd * 20 above the floor of 200 attempts
BigQtd == 11

\* ddds has 1..MaxDdds entries in a direct call of generate
MaxDdds == 2

\* is_trivially_invalid is applied to digit strings of 1..MaxLen characters
MaxLen == 9

(* Program constants *)

\* range(8): number of random digits after the leading '9'
TailLen == 8

\* max(qtd * 20, 200)
AttemptFactor == 20

AttemptFloor == 200

\* len(seq) >= 6
MinRunLen == 6

----------------------------------------------------------------------------
(* Python primitives *)

DigitChars == <<"0", "1", "2", "3", "4", "5", "6", "7", "8", "9">>

\* str(n) for n in 0..9
str(n) == DigitChars[n + 1]

\* int(c) for a digit character c
int(c) == CHOOSE n \in 0..9 : DigitChars[n + 1] = c

\* c.isdigit() for one character
isdigit(c) == \E n \in 0..9 : DigitChars[n + 1] = c

\* ''.join(str(d) for d in draw)
join(draw) == [k \in 1..Len(draw) |-> str(draw[k])]

Min(a, b) == IF a < b THEN a ELSE b

\* max(a, b)
max(a, b) == IF a > b THEN a ELSE b

\* s[lo:hi] with 0 <= lo
PySlice(s, lo, hi) == SubSeq(s, lo + 1, Min(hi, Len(s)))

\* s[lo:]
PySliceFrom(s, lo) == SubSeq(s, lo + 1, Len(s))

\* set(s)
PySet(s) == {s[k] : k \in 1..Len(s)}

\* zip(a, b)
zip(a, b) == [k \in 1..Min(Len(a), Len(b)) |-> <<a[k], b[k]>>]

\* all(P(x) for x in s) is written \A k \in 1..Len(s) : P(s[k])

----------------------------------------------------------------------------
(* VALID_DDDS, lines 33-43 *)

VALID_DDDS ==
    { <<"1","1">>, <<"1","2">>, <<"1","3">>, <<"1","4">>, <<"1","5">>,
      <<"1","6">>, <<"1","7">>, <<"1","8">>, <<"1","9">>,
      <<"2","1">>, <<"2","2">>, <<"2","4">>, <<"2","7">>, <<"2","8">>,
      <<"3","1">>, <<"3","2">>, <<"3","3">>, <<"3","4">>, <<"3","5">>,
      <<"3","7">>, <<"3","8">>,
      <<"4","1">>, <<"4","2">>, <<"4","3">>, <<"4","4">>, <<"4","5">>,
      <<"4","6">>, <<"4","7">>, <<"4","8">>, <<"4","9">>,
      <<"5","1">>, <<"5","3">>, <<"5","4">>, <<"5","5">>,
      <<"6","1">>, <<"6","2">>, <<"6","3">>, <<"6","4">>, <<"6","5">>,
      <<"6","6">>, <<"6","7">>, <<"6","8">>, <<"6","9">>,
      <<"7","1">>, <<"7","3">>, <<"7","4">>, <<"7","5">>, <<"7","7">>,
      <<"7","9">>,
      <<"8","1">>, <<"8","2">>, <<"8","3">>, <<"8","4">>, <<"8","5">>,
      <<"8","6">>, <<"8","7">>, <<"8","8">>, <<"8","9">>,
      <<"9","1">>, <<"9","2">>, <<"9","3">>, <<"9","4">>, <<"9","5">>,
      <<"9","6">>, <<"9","7">>, <<"9","8">>, <<"9","9">> }

\* a < b for two strings of digits (Python compares strings character by character)
StrLess(a, b) ==
    \E k \in 1..Min(Len(a), Len(b)) + 1 :
        /\ \A j \in 1..(k - 1) : a[j] = b[j]
        /\ IF k <= Min(Len(a), Len(b)) THEN int(a[k]) < int(b[k])
                                       ELSE Len(a) < Len(b)

\* sorted(S) for a set of strings of digits
RECURSIVE sorted(_)
sorted(S) ==
    IF S = {} THEN <<>>
    ELSE LET m == CHOOSE x \in S : \A y \in S : ~StrLess(y, x)
         IN  <<m>> \o sorted(S \ {m})

----------------------------------------------------------------------------
(* is_trivially_invalid, lines 59-67 *)

\* mutant: the length test of line 65 is left out
is_trivially_invalid_any_length(s) ==
    LET pairs == zip(s, PySliceFrom(s, 1))
        inc == \A k \in 1..Len(pairs) : int(pairs[k][2]) - int(pairs[k][1]) = 1
        dec == \A k \in 1..Len(pairs) : int(pairs[k][1]) - int(pairs[k][2]) = 1
    IN  IF Cardinality(PySet(s)) = 1 THEN TRUE
        ELSE IF inc \/ dec THEN TRUE
        ELSE FALSE

is_trivially_invalid(s) ==
    LET pairs == zip(s, PySliceFrom(s, 1))
        inc == \A k \in 1..Len(pairs) : int(pairs[k][2]) - int(pairs[k][1]) = 1
        dec == \A k \in 1..Len(pairs) : int(pairs[k][1]) - int(pairs[k][2]) = 1
    IN  IF Cardinality(PySet(s)) = 1 THEN TRUE
        ELSE IF Len(s) >= MinRunLen /\ (inc \/ dec) THEN TRUE
        ELSE FALSE

(* gen_local_9digits, lines 70-77 *)

\* lines 72-73 and 75-76: seq = '9' + tail, tail the eight digits drawn
Candidate(draw) == <<"9">> \o join(draw)

\* mutant: the first candidate is returned unchecked
KeepDrawingNever(s) == FALSE

\* line 74: the condition of the rejection loop
KeepDrawing(s) == is_trivially_invalid(s)

(* gen_number_for_ddd, lines 80-85; numero is the value gen_local_9digits returned *)

\* mutant: the E.164 string lacks the area code
gen_number_without_ddd(d, numero) ==
    LET e164 == <<"+", "5", "5">> \o numero
        nacional == <<"(">> \o d \o <<")", " ">> \o <<numero[1]>> \o <<" ">>
                    \o PySlice(numero, 1, 5) \o <<"-">> \o PySliceFrom(numero, 5)
    IN  <<e164, nacional, d, numero>>

\* mutant: the groups of nacional are cut at numero[1:4] and numero[4:]
gen_number_split_early(d, numero) ==
    LET e164 == <<"+", "5", "5">> \o d \o numero
        nacional == <<"(">> \o d \o <<")", " ">> \o <<numero[1]>> \o <<" ">>
                    \o PySlice(numero, 1, 4) \o <<"-">> \o PySliceFrom(numero, 4)
    IN  <<e164, nacional, d, numero>>

gen_number_for_ddd(d, numero) ==
    LET e164 == <<"+", "5", "5">> \o d \o numero
        nacional == <<"(">> \o d \o <<")", " ">> \o <<numero[1]>> \o <<" ">>
                    \o PySlice(numero, 1, 5) \o <<"-">> \o PySliceFrom(numero, 5)
    IN  <<e164, nacional, d, numero>>

(* generate, lines 88-107 *)

\* line 94
MaxAttemptsOf(q) == max(q * AttemptFactor, AttemptFloor)

\* mutant: len(results) <= qtd
LoopCondOneMore(rs, q, a, m) == Len(rs) <= q /\ a < m

\* line 95: the condition of the while loop
LoopCond(rs, q, a, m) == Len(rs) < q /\ a < m

\* mutant: the cycle starts at the second area code
PickDddOffByOne(ds, idx) == ds[((idx + 1) % Len(ds)) + 1]

\* line 96
PickDdd(ds, idx) == ds[(idx % Len(ds)) + 1]

\* mutant: the attempt is not counted
CountNothing(a) == a

\* line 98
CountAttempt(a) == a + 1

\* mutant: the membership test is left out
IsRejectedNever(dd, e164, sn) == FALSE

\* lines 99-101: the candidate is dropped by `continue`
IsRejected(dd, e164, sn) == dd /\ e164 \in sn

\* lines 99-102: seen after the attempt
SeenAfter(dd, e164, sn) == IF dd THEN sn \cup {e164} ELSE sn

\* mutant: i += 1 runs on every attempt
IndexAfterEveryAttempt(idx, accepted) == idx + 1

\* line 104 on the accepting path; `continue` skips it
IndexAfter(idx, accepted) == IF accepted THEN idx + 1 ELSE idx

\* mutant: len(results) <= qtd
ShortfallOrFull(rs, q) == Len(rs) <= q

\* line 105
Shortfall(rs, q) == Len(rs) < q

\* line 106: the counts of the warning
WarningOf(rs, q, a) == <<Len(rs), q, a>>

(* write_outputs, lines 110-124 *)

CsvHeader == <<"e164", "nacional", "ddd", "numero">>

write_outputs(rows) ==
    [csv |-> [header |-> CsvHeader, rows |-> rows],
     txt |-> [k \in 1..Len(rows) |-> rows[k][1]]]

----------------------------------------------------------------------------
(* Inputs *)

\* What sysrand.randint(0, 9), called eight times, may return in the batch
\* model.  A candidate '9' + tail is trivial for exactly two tails, both here.
Draws ==
    { <<9, 9, 9, 9, 9, 9, 9, 9>>,
      <<8, 7, 6, 5, 4, 3, 2, 1>>,
      <<1, 2, 3, 4, 5, 6, 7, 8>>,
      <<0, 0, 0, 0, 0, 0, 0, 0>> }

\* Area codes of the direct calls
DddChoices == { <<"1","1">>, <<"2","1">> }

DddLists ==
    UNION { [1..n -> DddChoices] : n \in 1..MaxDdds }

QtdValues == (1..MaxQtd) \cup {BigQtd}

\* a run of n digits from a with step d
Run(a, d, n) == [k \in 1..n |-> a + d * (k - 1)]

IsDigits(t) == \A k \in 1..Len(t) : t[k] \in 0..9

Runs(n) == { r \in { Run(a, d, n) : a \in 0..9, d \in {-1, 0, 1} } : IsDigits(r) }

\* the runs, and the runs with one position overwritten
NearRuns(n, digits) ==
    Runs(n) \cup { [r EXCEPT ![p] = c] : r \in Runs(n), p \in 1..n, c \in digits }

\* arguments of is_trivially_invalid in FilterSpec
FilterInputs == UNION { { join(t) : t \in NearRuns(n, 0..9) } : n \in 1..MaxLen }

\* what the random source may return in NumberSpec
RichDraws == NearRuns(TailLen, {0, 9})

----------------------------------------------------------------------------
(* Spec: main() or a direct caller runs generate(ddds, qtd, dedup) *)

\* lines 89-94 have run
Init ==
    /\ caller \in {"main", "direct"}
    /\ qtd \in QtdValues
    /\ IF caller = "main"
       THEN /\ dedup = TRUE                                       \* line 190
            /\ ddds \in { <<d>> : d \in DddChoices } \cup {sorted(VALID_DDDS)}  \* lines 178, 181
       ELSE /\ dedup \in BOOLEAN
            /\ ddds \in DddLists
            /\ (qtd = BigQtd => dedup)   \* the large quantity is run under dedup only
    /\ results = <<>>
    /\ seen = {}
    /\ i = 0
    /\ attempts = 0
    /\ max_attempts = MaxAttemptsOf(qtd)
    /\ ddd = <<>>
    /\ seq = <<>>
    /\ warning = <<>>
    /\ ret = <<>>
    /\ files = <<>>
    /\ pc = "loop"

\* lines 95-97, 82, 72-73: the loop goes on, picks the area code and calls
\* gen_number_for_ddd, which calls gen_local_9digits, which draws a candidate
LoopEnter ==
    /\ pc = "loop"
    /\ LoopCond(results, qtd, attempts, max_attempts)
    /\ ddd' = PickDdd(ddds, i)
    /\ \E draw \in Draws : seq' = Candidate(draw)
    /\ pc' = "gen"
    /\ UNCHANGED <<caller, ddds, qtd, dedup, results, seen, i, attempts,
                   max_attempts, warning, ret, files>>

\* lines 74-76: the candidate is trivial and is drawn again
RedrawFrom(D) ==
    /\ pc = "gen"
    /\ KeepDrawing(seq)
    /\ \E draw \in D : seq' = Candidate(draw)
    /\ UNCHANGED <<pc, caller, ddds, qtd, dedup, results, seen, i, attempts,
                   max_attempts, ddd, warning, ret, files>>

Redraw == RedrawFrom(Draws)

\* lines 77, 83-85, 97-101: the candidate is returned, formatted, counted,
\* and dropped as a duplicate
IterReject ==
    /\ pc = "gen"
    /\ ~KeepDrawing(seq)
    /\ LET rec == gen_number_for_ddd(ddd, seq) IN
        /\ IsRejected(dedup, rec[1], seen)
        /\ attempts' = CountAttempt(attempts)
        /\ i' = IndexAfter(i, FALSE)
        /\ pc' = "loop"
        /\ UNCHANGED <<caller, ddds, qtd, dedup, results, seen, max_attempts,
                       ddd, seq, warning, ret, files>>

\* lines 77, 83-85, 97-104: the candidate is returned, formatted, counted,
\* and appended
IterAccept ==
    /\ pc = "gen"
    /\ ~KeepDrawing(seq)
    /\ LET rec == gen_number_for_ddd(ddd, seq) IN
        /\ ~IsRejected(dedup, rec[1], seen)
        /\ attempts' = CountAttempt(attempts)
        /\ seen' = SeenAfter(dedup, rec[1], seen)
        /\ results' = Append(results, <<rec[1], rec[2], rec[3], rec[4]>>)
        /\ i' = IndexAfter(i, TRUE)
        /\ pc' = "loop"
        /\ UNCHANGED <<caller, ddds, qtd, dedup, max_attempts, ddd, seq,
                       warning, ret, files>>

\* lines 95, 105-107: the loop ends, the warning is printed on a shortfall,
\* the batch is returned
LoopExit ==
    /\ pc = "loop"
    /\ ~LoopCond(results, qtd, attempts, max_attempts)
    /\ warning' = IF Shortfall(results, qtd)
                  THEN WarningOf(results, qtd, attempts) ELSE <<>>
    /\ ret' = results
    /\ pc' = "returned"
    /\ UNCHANGED <<caller, ddds, qtd, dedup, results, seen, i, attempts,
                   max_attempts, ddd, seq, files>>

\* lines 190-191: main passes the returned rows to write_outputs
WriteOutputs ==
    /\ pc = "returned"
    /\ caller = "main"
    /\ files' = write_outputs(ret)
    /\ pc' = "written"
    /\ UNCHANGED <<caller, ddds, qtd, dedup, results, seen, i, attempts,
                   max_attempts, ddd, seq, warning, ret>>

Next ==
    \/ LoopEnter
    \/ Redraw
    \/ IterReject
    \/ IterAccept
    \/ LoopExit
    \/ WriteOutputs

Spec == Init /\ [][Next]_vars

\* A redraw that yields a candidate the filter lets through
RedrawGood == Redraw /\ ~KeepDrawing(seq')

\* The program runs on (single thread, no suspension), and the random source
\* does not return trivial candidates for ever, so that every call of
\* gen_local_9digits returns.
LiveSpec == Spec /\ WF_vars(Next) /\ WF_vars(RedrawGood)


----------------------------------------------------------------------------
(* NumberSpec: gen_number_for_ddd(ddd) called for any valid area code *)

Idle ==
    /\ caller = "direct"
    /\ ddds = <<>>
    /\ qtd = 0
    /\ dedup = FALSE
    /\ results = <<>>
    /\ seen = {}
    /\ i = 0
    /\ attempts = 0
    /\ max_attempts = 0
    /\ warning = <<>>
    /\ files = <<>>

batch == <<caller, ddds, qtd, dedup, results, seen, i, attempts,
           max_attempts, warning, files>>

NumInit ==
    /\ Idle
    /\ ddd \in VALID_DDDS
    /\ seq = <<>>
    /\ ret = <<>>
    /\ pc = "call"

\* lines 82, 72-73: gen_local_9digits is called and draws a candidate
NumCall ==
    /\ pc = "call"
    /\ \E draw \in RichDraws : seq' = Candidate(draw)
    /\ pc' = "gen"
    /\ UNCHANGED <<batch, ddd, ret>>

\* lines 74-76
NumRedraw == RedrawFrom(RichDraws)

\* lines 77, 83-85
NumReturn ==
    /\ pc = "gen"
    /\ ~KeepDrawing(seq)
    /\ ret' = gen_number_for_ddd(ddd, seq)
    /\ pc' = "returned"
    /\ UNCHANGED <<batch, ddd, seq>>

NumNext ==
    \/ NumCall
    \/ NumRedraw
    \/ NumReturn

NumberSpec == NumInit /\ [][NumNext]_vars

----------------------------------------------------------------------------
(* FilterSpec: is_trivially_invalid(seq) called on a string of digits *)

FilterInit ==
    /\ Idle
    /\ ddd = <<>>
    /\ seq \in FilterInputs
    /\ ret = <<>>
    /\ pc = "call"

\* lines 59-67
FilterCall ==
    /\ pc = "call"
    /\ ret' = is_trivially_invalid(seq)
    /\ pc' = "returned"
    /\ UNCHANGED <<batch, ddd, seq>>

FilterNext == FilterCall

FilterSpec == FilterInit /\ [][FilterNext]_vars

----------------------------------------------------------------------------
(* Properties *)

Returned == pc \in {"returned", "written"}

\* the E.164 values of a batch
E164s(rs) == {rs[k][1] : k \in 1..Len(rs)}

PairwiseDistinct(rs) ==
    \A j, k \in 1..Len(rs) : j # k => rs[j][1] # rs[k][1]

\* the attempt budget as the specification states it
Budget == IF qtd * 20 > 200 THEN qtd * 20 ELSE 200

\* C1: with dedup=True, in every state of the loop and in the returned batch
\* the E.164 values of the records of results are pairwise distinct, and seen
\* is exactly the set of the E.164 values of the records of results.
C1_DedupDistinct ==
    dedup =>
        /\ PairwiseDistinct(results)
        /\ seen = E164s(results)
        /\ (Returned => PairwiseDistinct(ret))

\* C1 witness: a batch of two or more records was returned under dedup after
\* at least one candidate had been rejected as a duplicate.
C1_Witness ==
    /\ pc = "returned"
    /\ dedup
    /\ Len(ret) >= 2
    /\ attempts > Len(ret)

\* C2: the returned batch never has more than qtd records; it has exactly qtd
\* unless the attempt counter reached the budget; and with dedup=True a run
\* with fewer than budget - qtd + 1 rejected candidates returns exactly qtd
\* records with qtd distinct E.164 values.
C2_BatchSize ==
    Returned =>
        /\ Len(ret) <= qtd
        /\ (Len(ret) = qtd \/ attempts = Budget)
        /\ (dedup /\ attempts - Len(ret) < Budget - qtd + 1
              => Len(ret) = qtd /\ Cardinality(E164s(ret)) = qtd)

\* C2 witness: a full batch was returned under dedup although candidates had
\* been rejected as duplicates on the way.
C2_Witness ==
    /\ pc = "returned"
    /\ dedup
    /\ qtd >= 2
    /\ Len(ret) = qtd
    /\ attempts > qtd

\* C3: the attempt counter never exceeds the budget max(qtd*20, 200), every
\* loop iteration adds exactly 1 to it (and nothing else changes it), and
\* generate eventually returns, provided every call of the local-number
\* generator returns (the fairness of LiveSpec).
C3_BudgetAndTermination ==
    /\ [](attempts <= Budget)
    /\ [][attempts' = IF pc = "gen" /\ pc' = "loop" THEN attempts + 1
                                                  ELSE attempts]_vars
    /\ <>Returned

\* C3 witness: generate returned with the budget of qtd*20 attempts used up,
\* every candidate after the first few having been rejected as a duplicate.
C3_Witness ==
    /\ pc = "returned"
    /\ qtd * 20 > 200
    /\ attempts = qtd * 20
    /\ Len(ret) < qtd

\* C4 as claimed: with dedup=True and more than one area code, the area code
\* of attempt number a (from 0) is ddds[a mod len(ddds)].
C4_AdvancesEveryAttempt ==
    (pc = "gen" /\ dedup /\ Len(ddds) > 1)
        => ddd = ddds[(attempts % Len(ddds)) + 1]

\* C4 as amended: with dedup=True and more than one area code, the area code
\* of an attempt is ddds[n mod len(ddds)] for n the number of records accepted
\* so far: it advances after an accepted attempt only, and the attempt after
\* a rejected duplicate uses the same area code again.
C4_AdvancesEveryAccept ==
    (pc = "gen" /\ dedup /\ Len(ddds) > 1)
        => ddd = ddds[(Len(results) % Len(ddds)) + 1]

\* C4 witness: an attempt that follows a rejection, with an area code that is
\* not the one the attempt number selects.
C4_Witness ==
    /\ pc = "gen"
    /\ dedup
    /\ Len(ddds) > 1
    /\ attempts > Len(results)
    /\ ddd # ddds[(attempts % Len(ddds)) + 1]

\* C5: generate prints the shortfall warning iff the returned batch has fewer
\* than qtd records; its counts are the number produced, qtd and the attempts
\* used, which equal the budget; the partial batch is what is returned, and
\* main goes on to write it with write_outputs.
C5_ShortfallWarning ==
    /\ Returned =>
        /\ (warning # <<>>) <=> (Len(ret) < qtd)
        /\ warning # <<>> =>
              /\ warning = <<Len(ret), qtd, attempts>>
              /\ attempts = Budget
        /\ ret = results
    /\ (pc = "returned" /\ caller = "main") => ENABLED WriteOutputs
    /\ pc = "written" =>
        /\ files.txt = [k \in 1..Len(ret) |-> ret[k][1]]
        /\ files.csv.rows = ret

\* C5 witness: main wrote a partial, non-empty batch after the warning.
C5_Witness ==
    /\ pc = "written"
    /\ warning # <<>>
    /\ Len(ret) >= 1
    /\ Len(files.txt) = Len(ret)

\* a local number as the specification wants it
GoodLocal(n) ==
    /\ Len(n) = 9
    /\ n[1] = "9"
    /\ \A k \in 1..Len(n) : isdigit(n[k])
    /\ ~is_trivially_invalid(n)

\* C6: every value gen_local_9digits returns, and so the local number of
\* every record of a batch, has 9 characters, starts with '9', is all digits
\* and is not trivial for is_trivially_invalid.
C6_LocalNumbers ==
    /\ (pc = "loop" /\ attempts > 0) => GoodLocal(seq)
    /\ \A k \in 1..Len(results) : GoodLocal(results[k][4])
    /\ Returned => \A k \in 1..Len(ret) : GoodLocal(ret[k][4])

\* C6 witness: the rejection loop holds a trivial candidate while the batch
\* already has a record.
C6_Witness ==
    /\ pc = "gen"
    /\ is_trivially_invalid(seq)
    /\ Len(results) >= 1

\* digit k of s as a number
DigitAt(s, k) == CHOOSE n \in 0..9 : DigitChars[n + 1] = s[k]

AllSame(s) == \A j, k \in 1..Len(s) : s[j] = s[k]

Ascending(s) == \A k \in 1..(Len(s) - 1) : DigitAt(s, k + 1) = DigitAt(s, k) + 1

Descending(s) == \A k \in 1..(Len(s) - 1) : DigitAt(s, k + 1) = DigitAt(s, k) - 1

\* C7: for a non-empty digit string s, is_trivially_invalid(s) is true
\* exactly when all characters are the same, or len(s) >= 6 and the whole of
\* s ascends by 1, or len(s) >= 6 and the whole of s descends by 1; so
\* "912345678" and "12345" are not trivial.
C7_FilterRule ==
    pc = "returned" =>
        /\ ret = (\/ AllSame(seq)
                  \/ Len(seq) >= 6 /\ Ascending(seq)
                  \/ Len(seq) >= 6 /\ Descending(seq))
        /\ seq = <<"9", "1", "2", "3", "4", "5", "6", "7", "8">> => ret = FALSE
        /\ seq = <<"1", "2", "3", "4", "5">> => ret = FALSE

\* C7 witness: the filter answered for "912345678", which holds an ascending
\* run as a proper substring.
C7_Witness ==
    /\ pc = "returned"
    /\ seq = <<"9", "1", "2", "3", "4", "5", "6", "7", "8">>
    /\ ret = FALSE

\* C8 as claimed: the E.164 string is "+55", the area code and the local
\* number, and has exactly 14 characters after the leading "+".
C8_FourteenAfterPlus ==
    pc = "returned" =>
        /\ ret[1] = <<"+", "5", "5">> \o ddd \o seq
        /\ ret[1][1] = "+"
        /\ Len(ret[1]) - 1 = 14

\* C8 as amended: the E.164 string is "+55", the area code and the local
\* number, and has exactly 14 characters, the leading "+" included (13 after
\* it).
C8_FourteenInAll ==
    pc = "returned" =>
        /\ ret[1] = <<"+", "5", "5">> \o ddd \o seq
        /\ ret[1][1] = "+"
        /\ Len(ret[1]) = 14
        /\ Len(Tail(ret[1])) = 13

\* C8 witness: a record was built for area code 99.
C8_Witness ==
    /\ pc = "returned"
    /\ ddd = <<"9", "9">>
    /\ Len(seq) = 9
    /\ ret[1][4] = "9"

\* C9: stripping "+55" and the area code from e164 gives the local number,
\* re-splitting it as "(D) " + N[0] + " " + N[1..4] + "-" + N[5..8] gives the
\* record's nacional, and the fields ddd and numero are D and N.
C9_RoundTrip ==
    pc = "returned" =>
        LET e164 == ret[1]
            prefix == <<"+", "5", "5">> \o ddd
            n == SubSeq(e164, Len(prefix) + 1, Len(e164))
        IN  /\ SubSeq(e164, 1, Len(prefix)) = prefix
            /\ n = seq
            /\ ret[2] = <<"(">> \o ddd \o <<")", " ", n[1], " ">>
                        \o <<n[2], n[3], n[4], n[5]>> \o <<"-">>
                        \o <<n[6], n[7], n[8], n[9]>>
            /\ ret[3] = ddd
            /\ ret[4] = seq

\* C9 witness: a record whose two digit groups differ, so that a swap or a
\* shift of the groups would show.
C9_Witness ==
    /\ pc = "returned"
    /\ SubSeq(seq, 2, 5) # SubSeq(seq, 6, 9)
    /\ seq[5] # seq[6]
    /\ Len(ret[2]) = 16

\* C10: i is len(results) in every state; for any dedup the k-th record (from
\* 0) of the batch has area code ddds[k mod len(ddds)]; and after a candidate
\* is rejected as a duplicate the next attempt uses the same area code.
C10_RoundRobin ==
    /\ [](/\ i = Len(results)
          /\ \A k \in 1..Len(results) :
                results[k][3] = ddds[((k - 1) % Len(ddds)) + 1]
          /\ Returned => \A k \in 1..Len(ret) :
                ret[k][3] = ddds[((k - 1) % Len(ddds)) + 1])
    /\ [][(pc = "gen" /\ pc' = "loop" /\ results' = results)
            => ddds[(i' % Len(ddds)) + 1] = ddd]_vars

\* C10 witness: without dedup, a batch of three over two area codes wrapped
\* around and kept a duplicate.
C10_Witness ==
    /\ pc = "returned"
    /\ ~dedup
    /\ Len(ddds) = 2
    /\ ddds[1] # ddds[2]
    /\ Len(ret) = 3
    /\ ret[1][1] = ret[3][1]

============================================================================
